---- MODULE Spec2Model ----
(***************************************************************************)
(* Resilience layer and template manager of spot-toolkit: CircuitBreaker,  *)
(* withRetry, EnhancedProviderManager, MetricsCollector, TemplateManager   *)
(* experiments and SPOT.generate.                                          *)
(*                                                                         *)
(* The specifications share the definitions below:                         *)
(*   SpecCB    one CircuitBreaker with several execute() calls in flight   *)
(*   SpecRetry one withRetry call, attempt by attempt                      *)
(*   SpecPM    EnhancedProviderManager.generateText over its fallback      *)
(*             chain (tryProvider = metrics.time(breaker.execute(          *)
(*             withRetry(provider.generateText))))                         *)
(*   SpecApp   EnhancedProviderManager.getProvider and SPOT.generate       *)
(*   SpecMet   one MetricsCollector: time, getSummary, reset               *)
(*   SpecPct   getSummary and getExperimentResults over the same samples   *)
(*   SpecExp   TemplateManager experiments                                 *)
(*   SpecLint  lintStyle and the style-check endpoint over one text and    *)
(*             one style pack                                              *)
(*   SpecSyl   countSyllables over one token                               *)
(***************************************************************************)
EXTENDS Integers, Sequences, FiniteSets, TLC

VARIABLES
  now,        \* Date.now()
  cb,         \* SpecCB: the CircuitBreaker object
  calls,      \* SpecCB: the execute() calls, one record per call
  streak,     \* SpecCB: failed operations since the last successful one (history)
  rt,         \* the withRetry call in progress
  counters,   \* MetricsCollector.counters
  histograms, \* MetricsCollector.histograms
  providers,        \* EnhancedProviderManager.providers
  circuitBreakers,  \* EnhancedProviderManager.circuitBreakers
  fallbackChain,    \* EnhancedProviderManager.fallbackChain
  gen,              \* SpecPM: the generateText call in progress
  chainSets,        \* SpecPM: number of setFallbackChain calls so far (history)
  env,              \* process.env: the providers whose API key is set
  experiments,      \* TemplateManager.experiments
  spot,             \* SPOT.metrics
  out               \* how the last call of a public method ended (history)

cbVars == <<cb, calls, streak>>
metricVars == <<counters, histograms>>
pmVars == <<providers, circuitBreakers, fallbackChain, gen, chainSets>>
appVars == <<env, experiments, spot, out>>
vars == <<now, cbVars, rt, metricVars, pmVars, appVars>>

----------------------------------------------------------------------------
(* Bounds *)

MaxNow == 4
MaxCalls == 4
MaxThreshold == 2
MaxTimeout == 2
MaxRetries == 3
MaxBackoff == 2
MaxGen == 1
MaxJumps == 1
MaxChainSets == 1
MaxRegistered == 2
MaxGenerations == 2
MaxSamples == 3
MaxDuration == 1
MaxLen == 20
MaxRot == 2
MaxResults == 2
MaxText == 3
MaxToken == 4

----------------------------------------------------------------------------
(* JavaScript values *)

Null == -1

\* null coerces to 0 in a numeric comparison (Date.now() < this.nextAttempt)
ToNumber(x) == IF x = Null THEN 0 ELSE x

----------------------------------------------------------------------------
(* MetricsCollector.  A metric name is the sequence of its dot-separated   *)
(* segments, tags are the entries of the tags object in insertion order.   *)

NoTags == << >>

\* localeCompare on the tag names in use
TagRank(k) ==
  CASE k = "error" -> 1 [] k = "experiment" -> 2 [] k = "provider" -> 3
    [] k = "template" -> 4 [] OTHER -> 5

RECURSIVE InsertTag(_, _)
InsertTag(sorted, e) ==
  IF sorted = << >> THEN <<e>>
  ELSE IF TagRank(e[1]) < TagRank(Head(sorted)[1])
    THEN <<e>> \o sorted
    ELSE <<Head(sorted)>> \o InsertTag(Tail(sorted), e)

RECURSIVE SortTags(_)
SortTags(tags) ==
  IF tags = << >> THEN << >>
  ELSE InsertTag(SortTags(SubSeq(tags, 1, Len(tags) - 1)), tags[Len(tags)])

\* `${name}|${k}:${v},...` over the entries sorted by tag name
getMetricKey(name, tags) == <<name, SortTags(tags)>>

increment(ctrs, name, value, tags) ==
  LET key == getMetricKey(name, tags) IN
  IF key \in DOMAIN ctrs
    THEN [ctrs EXCEPT ![key] = @ + value]
    ELSE ctrs @@ (key :> value)

recordTime_fresh(hists, name, durationMs, tags) ==
  LET key == getMetricKey(name, tags) IN
  IF key \in DOMAIN hists
    THEN [hists EXCEPT ![key] = <<durationMs>>]
    ELSE hists @@ (key :> <<durationMs>>)

recordTime(hists, name, durationMs, tags) ==
  LET key == getMetricKey(name, tags) IN
  IF key \in DOMAIN hists
    THEN [hists EXCEPT ![key] = Append(@, durationMs)]
    ELSE hists @@ (key :> <<durationMs>>)

\* { ...tags, [k]: v }: an entry of that name keeps its place and takes the
\* new value, a new entry goes last
withTag(tags, k, v) ==
  IF \E i \in 1..Len(tags) : tags[i][1] = k
    THEN [i \in 1..Len(tags) |-> IF tags[i][1] = k THEN <<k, v>> ELSE tags[i]]
    ELSE Append(tags, <<k, v>>)

timeRecord_untagged(ctrs, hists, name, tags, ok, durationMs) ==
  IF ok
    THEN [ histograms |-> recordTime(hists, name, durationMs, tags),
           counters |-> increment(ctrs, Append(name, "success"), 1, tags) ]
    ELSE [ histograms |-> recordTime(hists, name, durationMs, tags),
           counters |-> increment(ctrs, Append(name, "error"), 1, tags) ]

\* time(), after fn has settled: [counters, histograms] afterwards
timeRecord(ctrs, hists, name, tags, ok, durationMs) ==
  IF ok
    THEN [ histograms |-> recordTime(hists, name, durationMs, tags),
           counters |-> increment(ctrs, Append(name, "success"), 1, tags) ]
    ELSE [ histograms |-> recordTime(hists, name, durationMs,
                                     withTag(tags, "error", "true")),
           counters |-> increment(ctrs, Append(name, "error"), 1, tags) ]

\* Array.prototype.sort((a, b) => a - b)
RECURSIVE InsertNum(_, _)
InsertNum(sorted, x) ==
  IF sorted = << >> THEN <<x>>
  ELSE IF x < Head(sorted) THEN <<x>> \o sorted
  ELSE <<Head(sorted)>> \o InsertNum(Tail(sorted), x)

RECURSIVE SortNum(_)
SortNum(values) ==
  IF values = << >> THEN << >>
  ELSE InsertNum(SortNum(SubSeq(values, 1, Len(values) - 1)),
                 values[Len(values)])

RECURSIVE Sum(_)
Sum(values) == IF values = << >> THEN 0 ELSE Head(values) + Sum(Tail(values))

\* the percentiles, in hundredths: 0.5, 0.95, 0.99.  length * p is computed
\* exactly: the product of a length and one of these doubles rounds to the
\* integer whenever the exact product is one
P50 == 50
P95 == 95
P99 == 99

\* Math.floor(length * p) and Math.ceil(length * p)
FloorOf(length, p) == (length * p) \div 100
CeilOf(length, p) == (length * p + 99) \div 100

\* sorted[index] of a JavaScript array (index from 0); "undefined" past its end
At(sorted, index) ==
  IF index + 1 \in 1..Len(sorted) THEN sorted[index + 1] ELSE "undefined"

\* getSummary(): the entry it builds for one histogram; the mean is kept as
\* the pair of its numerator and denominator
summaryOf(values) ==
  LET sorted == SortNum(values) IN
  [ count |-> Len(values),
    min |-> At(sorted, 0),
    max |-> At(sorted, Len(sorted) - 1),
    mean |-> <<Sum(values), Len(values)>>,
    p50 |-> At(sorted, FloorOf(Len(sorted), P50)),
    p95 |-> At(sorted, FloorOf(Len(sorted), P95)),
    p99 |-> At(sorted, FloorOf(Len(sorted), P99)) ]

\* getSummary(): the summary returned and the histograms left behind, each
\* array sorted in place by values.sort
getSummary(ctrs, hists) ==
  [ summary |-> [ counters |-> ctrs,
                  histograms |-> [k \in DOMAIN hists |-> summaryOf(hists[k])] ],
    histograms |-> [k \in DOMAIN hists |-> SortNum(hists[k])] ]

----------------------------------------------------------------------------
(* CircuitBreaker *)

DefaultThreshold == 5
DefaultTimeout == 60000

NewCircuitBreaker(threshold, timeout) ==
  [ threshold |-> threshold, timeout |-> timeout,
    state |-> "CLOSED", failures |-> 0,
    lastFailureTime |-> Null, nextAttempt |-> Null ]

\* execute(), first half: true when the call is refused without running
\* the operation
rejects_lt(b, t) == b.state = "OPEN" /\ t <= ToNumber(b.nextAttempt)

rejects(b, t) == b.state = "OPEN" /\ t < ToNumber(b.nextAttempt)

\* execute(), first half: the breaker a call that is let through leaves behind
admit(b, t) ==
  IF b.state = "OPEN" /\ ~(t < ToNumber(b.nextAttempt))
    THEN [b EXCEPT !.state = "HALF_OPEN"]
    ELSE b

onSuccess(b, ctrs) ==
  IF b.state = "HALF_OPEN"
    THEN [ cb |-> [b EXCEPT !.failures = 0, !.state = "CLOSED"],
           counters |-> increment(ctrs, <<"circuit_breaker", "closed">>, 1, NoTags) ]
    ELSE [ cb |-> [b EXCEPT !.failures = 0], counters |-> ctrs ]

onFailure_twice(b, t, ctrs) ==
  LET f == b.failures + 2 IN
  IF f >= b.threshold
    THEN [ cb |-> [b EXCEPT !.failures = f, !.lastFailureTime = t,
                            !.state = "OPEN", !.nextAttempt = t + b.timeout],
           counters |-> increment(ctrs, <<"circuit_breaker", "opened">>, 1, NoTags) ]
    ELSE [ cb |-> [b EXCEPT !.failures = f, !.lastFailureTime = t],
           counters |-> ctrs ]

onFailure_gt(b, t, ctrs) ==
  LET f == b.failures + 1 IN
  IF f > b.threshold
    THEN [ cb |-> [b EXCEPT !.failures = f, !.lastFailureTime = t,
                            !.state = "OPEN", !.nextAttempt = t + b.timeout],
           counters |-> increment(ctrs, <<"circuit_breaker", "opened">>, 1, NoTags) ]
    ELSE [ cb |-> [b EXCEPT !.failures = f, !.lastFailureTime = t],
           counters |-> ctrs ]

onFailure(b, t, ctrs) ==
  LET f == b.failures + 1 IN
  IF f >= b.threshold
    THEN [ cb |-> [b EXCEPT !.failures = f, !.lastFailureTime = t,
                            !.state = "OPEN", !.nextAttempt = t + b.timeout],
           counters |-> increment(ctrs, <<"circuit_breaker", "opened">>, 1, NoTags) ]
    ELSE [ cb |-> [b EXCEPT !.failures = f, !.lastFailureTime = t],
           counters |-> ctrs ]

\* the class of the error execute() throws for a refused call:
\* new Error('Circuit breaker is OPEN')
CircuitOpenClass == "Error"

\* the classes of the errors the wrapped operation throws: the providers
\* throw Error, withRetry passes a RetryableError on
OperationErrors == {"Error", "RetryableError"}

afterFailure_any(b, fb, e) ==
  IF fb THEN "fallback" ELSE e

\* execute(), catch block: what the call returns, or the class of the error
\* e it rethrows, after onFailure has run
afterFailure(b, fb, e) ==
  IF fb /\ b.state = "OPEN" THEN "fallback" ELSE e

----------------------------------------------------------------------------
(* SpecCB: one breaker, MaxCalls execute() calls that may overlap *)

CallIds == 1..MaxCalls

IdleCall ==
  [ pc |-> "idle", fb |-> FALSE, invoked |-> 0, probe |-> FALSE,
    opOk |-> FALSE, result |-> "none" ]

NoRetry == [ pc |-> "off" ]

NoOutcome == [ op |-> "none" ]

\* no SPOT application, no TemplateManager
NoApp ==
  /\ env = {}
  /\ experiments = << >>
  /\ spot = [ generationsCount |-> 0, errors |-> 0 ]
  /\ out = NoOutcome

NoManager ==
  /\ providers = {}
  /\ circuitBreakers = << >>
  /\ fallbackChain = << >>
  /\ gen = [ pc |-> "off" ]
  /\ chainSets = 0

\* call ids are given in order of arrival
Arrived(c) == IF c = 1 THEN TRUE ELSE calls[c - 1].pc # "idle"

InitCB ==
  /\ now = 1
  /\ NoApp
  /\ \E th \in 1..MaxThreshold, to \in 1..MaxTimeout :
        cb = NewCircuitBreaker(th, to)
  /\ calls = [c \in CallIds |-> IdleCall]
  /\ streak = 0
  /\ rt = NoRetry
  /\ counters = << >>
  /\ histograms = << >>
  /\ NoManager

\* time passes between two events of the event loop
Tick ==
  /\ now < MaxNow
  /\ now' = now + 1
  /\ UNCHANGED <<appVars, cbVars, rt, metricVars, pmVars>>

\* execute() is entered and refused: the breaker is OPEN and nextAttempt is
\* still ahead
ExecuteReject(c, fb) ==
  /\ calls[c].pc = "idle"
  /\ Arrived(c)
  /\ rejects(cb, now)
  /\ counters' = increment(counters, <<"circuit_breaker", "rejected">>, 1, NoTags)
  /\ calls' = [calls EXCEPT ![c] =
        [@ EXCEPT !.pc = "done", !.fb = fb,
                  !.result = IF fb THEN "fallback" ELSE CircuitOpenClass]]
  /\ UNCHANGED <<appVars, now, cb, streak, rt, histograms, pmVars>>

\* execute() is entered and reaches `await operation()`; whether the caller
\* passed a fallback is read only in the catch block, so it is drawn there
ExecuteBegin(c) ==
  /\ calls[c].pc = "idle"
  /\ Arrived(c)
  /\ ~rejects(cb, now)
  /\ cb' = admit(cb, now)
  /\ calls' = [calls EXCEPT ![c] =
        [@ EXCEPT !.pc = "running", !.invoked = @ + 1,
                  !.probe = (cb.state = "OPEN")]]
  /\ UNCHANGED <<appVars, now, streak, rt, metricVars, pmVars>>

\* the awaited operation resolves
ExecuteSucceed(c) ==
  /\ calls[c].pc = "running"
  /\ LET r == onSuccess(cb, counters) IN
       /\ cb' = r.cb
       /\ counters' = r.counters
       /\ calls' = [calls EXCEPT ![c] =
             [@ EXCEPT !.pc = "done", !.opOk = TRUE, !.result = "value"]]
  /\ streak' = 0
  /\ UNCHANGED <<appVars, now, rt, histograms, pmVars>>

\* the awaited operation rejects
ExecuteFail(c, fb, e) ==
  /\ calls[c].pc = "running"
  /\ LET r == onFailure(cb, now, counters) IN
       /\ cb' = r.cb
       /\ counters' = r.counters
       /\ calls' = [calls EXCEPT ![c] =
             [@ EXCEPT !.pc = "done", !.opOk = FALSE, !.fb = fb,
                       !.result = afterFailure(r.cb, fb, e)]]
  /\ streak' = streak + 1
  /\ UNCHANGED <<appVars, now, rt, histograms, pmVars>>

NextCB ==
  \/ Tick
  \/ \E c \in CallIds, fb \in BOOLEAN : ExecuteReject(c, fb)
  \/ \E c \in CallIds : ExecuteBegin(c)
  \/ \E c \in CallIds : ExecuteSucceed(c)
  \/ \E c \in CallIds, fb \in BOOLEAN, e \in OperationErrors :
       ExecuteFail(c, fb, e)

SpecCB == InitCB /\ [][NextCB]_vars

----------------------------------------------------------------------------
(* Properties of the CircuitBreaker, checked under SpecCB *)

\* call c enters execute() in this step
Enters(c) == calls[c].pc = "idle" /\ calls'[c].pc # "idle"

\* the operation awaited by call c settles in this step
Settles(c) == calls[c].pc = "running" /\ calls'[c].pc = "done"

\* C1: the failure that makes `threshold` failed operations in a row leaves
\* the breaker OPEN with nextAttempt ahead of the clock, and a call entering
\* while the breaker is OPEN and nextAttempt is ahead ends at once, without
\* the operation having been invoked.
C1_ThresholdOpensAndFailsFast ==
  [][ /\ (streak' # streak /\ streak' = cb.threshold)
          => (cb'.state = "OPEN" /\ now' < ToNumber(cb'.nextAttempt))
      /\ \A c \in CallIds :
           (Enters(c) /\ cb.state = "OPEN" /\ now < ToNumber(cb.nextAttempt))
             => /\ calls'[c].pc = "done"
                /\ calls'[c].invoked = 0
                /\ calls'[c].result \in {CircuitOpenClass, "fallback"} ]_vars

C1_Witness ==
  /\ cb.threshold = 2
  /\ streak = 2
  /\ cb.state = "OPEN"
  /\ \E c \in CallIds :
       /\ calls[c].pc = "done"
       /\ calls[c].result = CircuitOpenClass
       /\ calls[c].invoked = 0

\* C2: a call entering an OPEN breaker before nextAttempt does not invoke the
\* operation; one entering at or after nextAttempt moves the breaker to
\* HALF_OPEN and invokes the operation, and a call that has invoked the
\* operation never invokes it a second time.
C2_OpenGate ==
  [][ \A c \in CallIds :
        /\ (Enters(c) /\ cb.state = "OPEN")
             => IF now < ToNumber(cb.nextAttempt)
                  THEN calls'[c].invoked = 0 /\ cb' = cb
                  ELSE /\ cb'.state = "HALF_OPEN"
                       /\ calls'[c].pc = "running"
                       /\ calls'[c].invoked = 1
        /\ calls[c].invoked = 1 => calls'[c].invoked = 1 ]_vars

C2_Witness ==
  /\ \E c \in CallIds :
       calls[c].probe /\ calls[c].pc = "done" /\ calls[c].invoked = 1
  /\ \E d \in CallIds :
       calls[d].pc = "done" /\ calls[d].invoked = 0

\* C3: an operation settling while the breaker is HALF_OPEN leaves it CLOSED
\* with failures = 0 when it succeeded, and OPEN with nextAttempt = now +
\* timeout when it failed.
C3_HalfOpenSettles ==
  [][ \A c \in CallIds :
        (Settles(c) /\ cb.state = "HALF_OPEN")
          => IF calls'[c].opOk
               THEN cb'.state = "CLOSED" /\ cb'.failures = 0
               ELSE cb'.state = "OPEN" /\ cb'.nextAttempt = now + cb.timeout
    ]_vars

\* C4: while the call that made the OPEN -> HALF_OPEN transition is still
\* awaiting its operation, no other call entering execute() invokes the
\* operation.
C4_SingleProbe ==
  [][ \A c \in CallIds :
        (Enters(c) /\ \E d \in CallIds \ {c} :
                         calls[d].probe /\ calls[d].pc = "running")
          => calls'[c].invoked = 0 ]_vars

----------------------------------------------------------------------------
(* Providers: what a generateText() invocation throws *)

\* what can happen to the HTTP request of a provider
Faults == {"none", "network", "http5xx", "http429", "http4xx"}

\* OpenAIProvider / AnthropicProvider / GeminiProvider .generateText: a
\* non-ok response is thrown as `new Error(...)`, a fetch TypeError is
\* replaced by `new Error('Network error: ...')`
generateTextThrows(fault) ==
  IF fault = "none" THEN "none" ELSE "Error"

\* errorHandling.js handleProviderError: the classification helper
handleProviderError(fault) ==
  CASE fault = "network" -> "RetryableError"
    [] fault = "http5xx" -> "RetryableError"
    [] fault = "http429" -> "RetryableError"
    [] OTHER -> "APIError"

\* "api": a provider built by ProviderFactory; "custom": a provider object
\* handed to the manager's constructor, free to throw any error class
Kinds == {"api", "custom"}

\* the (fault, thrown error class) pairs one invocation of a provider of
\* kind k can produce; thrown = "none" when it resolves
Invocations(k) ==
  IF k = "api"
    THEN { <<f, generateTextThrows(f)>> : f \in Faults }
    ELSE { <<"custom", t>> : t \in {"none", "RetryableError", "Error"} }

----------------------------------------------------------------------------
(* withRetry(operation, maxRetries, backoffMs) *)

DefaultMaxRetries == 3
DefaultBackoffMs == 1000

RECURSIVE Pow2(_)
Pow2(n) == IF n <= 0 THEN 1 ELSE 2 * Pow2(n - 1)

\* the catch block's test: the error leaves withRetry
rethrows_last(attempt, maxRetries, thrown) == attempt = maxRetries

rethrows(attempt, maxRetries, thrown) ==
  attempt = maxRetries \/ thrown # "RetryableError"

backoffDelay_next(backoffMs, attempt) == backoffMs * Pow2(attempt)

backoffDelay(backoffMs, attempt) == backoffMs * Pow2(attempt - 1)

\* withRetry is entered: `for (let attempt = 1; attempt <= maxRetries; ...)`
retryStart(kind, maxRetries, backoffMs) ==
  [ pc |-> IF 1 <= maxRetries THEN "call" ELSE "done",
    kind |-> kind, attempt |-> 1,
    maxRetries |-> maxRetries, backoffMs |-> backoffMs,
    invocations |-> 0, waits |-> << >>,
    fault |-> "none", thrown |-> "none", allRetryable |-> TRUE,
    result |-> IF 1 <= maxRetries THEN "pending" ELSE "undefined" ]

\* `await operation()` settles: return, rethrow, or start the backoff timer
RetryInvoke ==
  /\ rt.pc = "call"
  /\ \E i \in Invocations(rt.kind) :
       LET fault == i[1]
           thrown == i[2]
           r == [rt EXCEPT !.invocations = @ + 1, !.fault = fault,
                           !.thrown = thrown,
                           !.allRetryable = @ /\ thrown = "RetryableError"]
       IN rt' =
            IF thrown = "none"
              THEN [r EXCEPT !.pc = "done", !.result = "value"]
            ELSE IF rethrows(rt.attempt, rt.maxRetries, thrown)
              THEN [r EXCEPT !.pc = "done", !.result = thrown]
            ELSE [r EXCEPT !.pc = "wait",
                    !.waits = Append(@, backoffDelay(rt.backoffMs, rt.attempt))]
  /\ UNCHANGED <<appVars, now, cbVars, metricVars, pmVars>>

\* the setTimeout of the backoff fires; the loop moves to the next attempt
RetryTimer ==
  /\ rt.pc = "wait"
  /\ now' = now + rt.waits[Len(rt.waits)]
  /\ rt' = [rt EXCEPT !.pc = "call", !.attempt = @ + 1]
  /\ UNCHANGED <<appVars, cbVars, metricVars, pmVars>>

InitRetry ==
  /\ now = 1
  /\ NoApp
  /\ \E k \in Kinds, n \in 0..MaxRetries,
        b \in (1..MaxBackoff) \cup {DefaultBackoffMs} :
        rt = retryStart(k, n, b)
  /\ cb = NewCircuitBreaker(DefaultThreshold, DefaultTimeout)
  /\ calls = [c \in CallIds |-> IdleCall]
  /\ streak = 0
  /\ counters = << >>
  /\ histograms = << >>
  /\ NoManager

NextRetry ==
  \/ RetryInvoke
  \/ RetryTimer

SpecRetry == InitRetry /\ [][NextRetry]_vars

----------------------------------------------------------------------------
(* Properties of withRetry, checked under SpecRetry *)

\* C5: a withRetry call with maxRetries = n >= 1 whose operation threw a
\* retryable error every time ends after exactly n invocations and n - 1
\* waits, the k-th wait lasting backoffMs * 2^(k-1); a wait is pending only
\* while attempts remain, and no call ever makes more than n invocations.
C5_RetryBudget ==
  /\ rt.invocations <= rt.maxRetries
  /\ Len(rt.waits) <= rt.invocations
  /\ rt.pc = "wait" => rt.invocations < rt.maxRetries
  /\ \A k \in 1..Len(rt.waits) : rt.waits[k] = rt.backoffMs * Pow2(k - 1)
  /\ (rt.pc = "done" /\ rt.maxRetries >= 1 /\ rt.allRetryable)
       => /\ rt.invocations = rt.maxRetries
          /\ Len(rt.waits) = rt.maxRetries - 1
          /\ rt.result = "RetryableError"

C5_Witness ==
  /\ rt.pc = "done"
  /\ rt.maxRetries = 3
  /\ rt.allRetryable
  /\ rt.invocations = 3
  /\ rt.waits = <<rt.backoffMs, 2 * rt.backoffMs>>

\* C6: an invocation that throws an error that is not a RetryableError ends
\* the withRetry call in that step: the error is the call's result, no wait
\* is started and the operation is never invoked again.
C6_NonRetryableEnds ==
  [][ /\ (rt.pc = "call" /\ rt'.thrown \notin {"none", "RetryableError"})
          => /\ rt'.pc = "done"
             /\ rt'.result = rt'.thrown
             /\ rt'.waits = rt.waits
      /\ rt.pc = "done" => rt' = rt ]_vars

C6_Witness ==
  /\ rt.pc = "done"
  /\ rt.result = "Error"
  /\ rt.maxRetries = 3
  /\ rt.invocations = 1
  /\ rt.waits = << >>

\* C7: an invocation of a factory-built provider that meets a network fault,
\* a 5xx response or a 429 response while attempts remain is followed by a
\* backoff and another invocation; with any other fault the call ends.
C7_TransientFaultsRetried ==
  [][ (rt.pc = "call" /\ rt.kind = "api" /\ rt'.fault # "none")
        => IF handleProviderError(rt'.fault) = "RetryableError"
                /\ rt.attempt < rt.maxRetries
             THEN rt'.pc = "wait"
             ELSE rt'.pc = "done" ]_vars

----------------------------------------------------------------------------
(* EnhancedProviderManager *)

Backends == <<"A", "B", "C">>
BackendNames == { Backends[i] : i \in 1..Len(Backends) }

\* a name options.provider can carry that the manager has no provider for
UnregisteredName == "D"

\* the provider objects the manager is constructed with: B is built by
\* ProviderFactory, A and C are objects supplied by the caller
ProviderKind(name) == IF name = "B" THEN "api" ELSE "custom"

GenerateTextMetric == <<"provider", "generate_text">>

DefaultRetries == 2

\* providers.has(name) / providers.get(name)
HasProvider(name) == \E i \in 1..Len(providers) : providers[i].name = name
GetProvider(name) ==
  providers[CHOOSE i \in 1..Len(providers) : providers[i].name = name]

\* the elements of an array
Range(seq) == { seq[i] : i \in 1..Len(seq) }

\* Array.prototype.slice(1)
Slice1(seq) == SubSeq(seq, 2, Len(seq))

\* error.message of the error thrown while backend `name` was being tried:
\* a provider's own error and `Unknown provider: ${name}` tell the backend,
\* 'Circuit breaker is OPEN' and the TypeError read the same for every backend
ErrorMessage(name, class) ==
  [ class |-> class,
    about |-> IF class \in {"CircuitOpen", "TypeError"} THEN "" ELSE name ]

NoError == [ class |-> "none", about |-> "" ]

\* how one tryProvider call ended: class = "ok" or the class of its error,
\* invocations = calls of provider.generateText made in it (history)
Hop(name, class, invocations) ==
  [ provider |-> name, class |-> class, invocations |-> invocations ]

\* the generateText call: pc, its locals (preferred, cur, rest = what is left
\* of fallbackChain.slice(1), error = the outer catch's `error`, start = the
\* start time taken by metrics.time), its outcome (result, cause) and its
\* history (n = calls so far, fresh = every breaker CLOSED and no metric
\* recorded when it began, tried = names passed to tryProvider, hops)
IdleGen(n) ==
  [ pc |-> "idle", n |-> n, option |-> "none", preferred |-> "none",
    retries |-> 0, cur |-> "none", inLoop |-> FALSE, rest |-> << >>,
    start |-> 0, fresh |-> FALSE, tried |-> << >>, hops |-> << >>,
    error |-> NoError, result |-> "none", cause |-> NoError ]

\* a breaker that has counted f failures at time t and is still CLOSED
UsedCircuitBreaker(f, t) ==
  [NewCircuitBreaker(DefaultThreshold, DefaultTimeout) EXCEPT
     !.failures = f, !.lastFailureTime = IF f = 0 THEN Null ELSE t]

\* constructor(providers): one breaker per provider, chain = the keys.
\* a breaker that has just counted its threshold-th failure at time t
TrippedCircuitBreaker(t) ==
  [NewCircuitBreaker(DefaultThreshold, DefaultTimeout) EXCEPT
     !.failures = DefaultThreshold, !.lastFailureTime = t,
     !.state = "OPEN", !.nextAttempt = t + DefaultTimeout]

\* The manager is new, or every backend has failed threshold - 1 times, or
\* every backend has failed threshold times (breakers OPEN); in the last two
\* cases metrics.reset() has been called since.
InitPM ==
  /\ now = 1
  /\ NoApp
  /\ providers = [i \in 1..Len(Backends) |->
                   [name |-> Backends[i], kind |-> ProviderKind(Backends[i])]]
  /\ \E f \in {0, DefaultThreshold - 1, DefaultThreshold} :
        circuitBreakers =
          [n \in BackendNames |->
             IF f < DefaultThreshold THEN UsedCircuitBreaker(f, now)
                                     ELSE TrippedCircuitBreaker(now)]
  /\ chainSets = 0
  /\ fallbackChain = Backends
  /\ gen = IdleGen(0)
  /\ rt = NoRetry
  /\ cb = NewCircuitBreaker(DefaultThreshold, DefaultTimeout)
  /\ calls = [c \in CallIds |-> IdleCall]
  /\ streak = 0
  /\ counters = << >>
  /\ histograms = << >>

\* the fallback chains setFallbackChain is called with
RECURSIVE ChainsOfLen(_)
ChainsOfLen(n) ==
  IF n = 0 THEN { << >> }
  ELSE { Append(c, b) : c \in ChainsOfLen(n - 1), b \in BackendNames }

NoRepeat(seq) == \A i, j \in 1..Len(seq) : seq[i] = seq[j] => i = j

Chains == { c \in UNION { ChainsOfLen(n) : n \in 0..Len(Backends) } : NoRepeat(c) }

setFallbackChain(providerNames) ==
  /\ gen.pc = "idle"
  /\ gen.n < MaxGen
  /\ chainSets < MaxChainSets
  /\ providerNames # fallbackChain
  /\ fallbackChain' = providerNames
  /\ chainSets' = chainSets + 1
  /\ UNCHANGED <<appVars, now, cbVars, rt, metricVars, providers, circuitBreakers, gen>>

\* generateText(), catch blocks: the state of the call after tryProvider
\* has thrown an error of class `class` for the backend `name`
hopFailed(g, name, class, invocations) ==
  LET firstError == IF g.inLoop THEN g.error ELSE ErrorMessage(name, class)
      rest == IF g.inLoop THEN g.rest ELSE Slice1(fallbackChain)
      g1 == [g EXCEPT !.hops = Append(@, Hop(name, class, invocations)),
                      !.error = firstError, !.inLoop = TRUE]
  IN IF rest = << >>
       THEN [g1 EXCEPT !.pc = "done", !.result = "AllProvidersFailed",
                       !.cause = firstError]
       ELSE [g1 EXCEPT !.pc = "hop", !.cur = Head(rest), !.rest = Tail(rest)]

\* metrics.increment('provider_manager.all_failed') before the final throw
allFailedCount(g, ctrs) ==
  IF g.pc = "done"
    THEN increment(ctrs, <<"provider_manager", "all_failed">>, 1, NoTags)
    ELSE ctrs

\* options.provider || this.fallbackChain[0]
preferredProvider(option) ==
  IF option # "none" THEN option
  ELSE IF Len(fallbackChain) > 0 THEN fallbackChain[1] ELSE "none"

\* generateText(prompt, options) is called
generateText(option, retries) ==
  /\ gen.pc = "idle"
  /\ gen.n < MaxGen
  /\ LET p == preferredProvider(option)
         g == [IdleGen(gen.n + 1) EXCEPT
                 !.option = option, !.preferred = p, !.retries = retries,
                 !.fresh = /\ counters = << >>
                           /\ histograms = << >>
                           /\ \A n \in DOMAIN circuitBreakers :
                                 circuitBreakers[n].state = "CLOSED"]
     IN gen' = IF p = "none"
                 THEN [g EXCEPT !.pc = "done", !.result = "NoProviderError"]
                 ELSE [g EXCEPT !.pc = "hop", !.cur = p]
  /\ UNCHANGED <<appVars, now, cbVars, rt, metricVars, providers, circuitBreakers,
                 fallbackChain, chainSets>>

\* tryProvider(gen.cur) up to its first await on the backend
tryProvider ==
  /\ gen.pc = "hop"
  /\ LET name == gen.cur
         g == [gen EXCEPT !.tried = Append(@, name), !.start = now]
         tags == <<<<"provider", name>>>>
     IN
     IF ~HasProvider(name) THEN
       \* throw new Error(`Unknown provider`) before metrics.time
       LET g2 == hopFailed(g, name, "UnknownProvider", 0) IN
       /\ gen' = g2
       /\ counters' = allFailedCount(g2, counters)
       /\ UNCHANGED <<rt, histograms, circuitBreakers>>
     ELSE IF name \notin DOMAIN circuitBreakers THEN
       \* circuitBreaker is undefined: TypeError inside metrics.time
       LET m == timeRecord(counters, histograms, GenerateTextMetric, tags,
                           FALSE, 0)
           g2 == hopFailed(g, name, "TypeError", 0) IN
       /\ gen' = g2
       /\ counters' = allFailedCount(g2, m.counters)
       /\ histograms' = m.histograms
       /\ UNCHANGED <<rt, circuitBreakers>>
     ELSE IF rejects(circuitBreakers[name], now) THEN
       LET c1 == increment(counters, <<"circuit_breaker", "rejected">>, 1,
                           NoTags)
           m == timeRecord(c1, histograms, GenerateTextMetric, tags, FALSE, 0)
           g2 == hopFailed(g, name, "CircuitOpen", 0) IN
       /\ gen' = g2
       /\ counters' = allFailedCount(g2, m.counters)
       /\ histograms' = m.histograms
       /\ UNCHANGED <<rt, circuitBreakers>>
     ELSE
       /\ circuitBreakers' =
            [circuitBreakers EXCEPT ![name] = admit(@, now)]
       /\ rt' = retryStart(GetProvider(name).kind, gen.retries,
                           DefaultBackoffMs)
       /\ gen' = [g EXCEPT !.pc = "retrying"]
       /\ UNCHANGED metricVars
  /\ UNCHANGED <<appVars, now, cbVars, providers, fallbackChain, chainSets>>

\* withRetry has settled: breaker.execute and metrics.time finish, and
\* generateText returns or moves on
tryProviderSettle ==
  /\ gen.pc = "retrying"
  /\ rt.pc = "done"
  /\ LET name == gen.cur
         tags == <<<<"provider", name>>>>
         ok == rt.result \in {"value", "undefined"}
         r == IF ok THEN onSuccess(circuitBreakers[name], counters)
                    ELSE onFailure(circuitBreakers[name], now, counters)
         m == timeRecord(r.counters, histograms, GenerateTextMetric, tags,
                         ok, now - gen.start)
         g2 == IF ok
                 THEN [gen EXCEPT !.pc = "done", !.result = name,
                         !.hops = Append(@, Hop(name, "ok",
                                                rt.invocations))]
                 ELSE hopFailed(gen, name, rt.result, rt.invocations)
     IN
     /\ circuitBreakers' = [circuitBreakers EXCEPT ![name] = r.cb]
     /\ histograms' = m.histograms
     /\ counters' = IF ok THEN m.counters ELSE allFailedCount(g2, m.counters)
     /\ gen' = g2
  /\ rt' = NoRetry
  /\ UNCHANGED <<appVars, now, cbVars, providers, fallbackChain, chainSets>>

\* the caller has its answer; the manager is ready for the next call
generateTextReturn ==
  /\ gen.pc = "done"
  /\ gen' = IdleGen(gen.n)
  /\ UNCHANGED <<appVars, now, cbVars, rt, metricVars, providers, circuitBreakers,
                 fallbackChain, chainSets>>

\* time passes between two calls
Idle ==
  /\ gen.pc = "idle"
  /\ now < MaxJumps * DefaultTimeout
  /\ now' = now + DefaultTimeout
  /\ UNCHANGED <<appVars, cbVars, rt, metricVars, pmVars>>

NextPM ==
  \/ \E c \in Chains : setFallbackChain(c)
  \/ \E o \in BackendNames \cup {UnregisteredName, "none"},
        r \in {1, DefaultRetries} :
       generateText(o, r)
  \/ tryProvider
  \/ RetryInvoke
  \/ RetryTimer
  \/ tryProviderSettle
  \/ generateTextReturn
  \/ Idle

SpecPM == InitPM /\ [][NextPM]_vars

----------------------------------------------------------------------------
(* Properties of generateText, checked under SpecPM *)


AllFailed == gen.pc = "done" /\ gen.result = "AllProvidersFailed"

\* C8: the first backend tried is options.provider when given and else the
\* head of the fallback chain, and a call that ends with "all providers
\* failed" has tried every backend of the fallback chain.
C8_WholeChainTried ==
  /\ (gen.pc = "done" /\ gen.tried # << >>)
       => gen.tried[1] = IF gen.option # "none" THEN gen.option
                         ELSE fallbackChain[1]
  /\ AllFailed => Range(fallbackChain) \subseteq Range(gen.tried)

\* C9: the error message a failed generateText call carries is that of the
\* error of the last backend it tried.
C9_CarriesLastError ==
  AllFailed =>
    LET last == gen.hops[Len(gen.hops)] IN
    gen.cause = ErrorMessage(last.provider, last.class)

FailureKey(name) ==
  getMetricKey(GenerateTextMetric, <<<<"provider", name>>, <<"error", "true">>>>)
SuccessKey(name) ==
  getMetricKey(GenerateTextMetric, <<<<"provider", name>>>>)
ErrorCountKey(name) ==
  getMetricKey(Append(GenerateTextMetric, "error"), <<<<"provider", name>>>>)
SuccessCountKey(name) ==
  getMetricKey(Append(GenerateTextMetric, "success"), <<<<"provider", name>>>>)

\* the call began with every breaker CLOSED and no metric recorded, with
\* chain A, B, C and no options.provider, and in it A and B threw at every
\* invocation and C resolved at every invocation
ScenarioABC ==
  /\ gen.fresh
  /\ gen.option = "none"
  /\ fallbackChain = <<"A", "B", "C">>
  /\ \A i \in 1..Len(gen.hops) :
       LET h == gen.hops[i] IN
         /\ h.provider \in {"A", "B"} => h.class # "ok"
         /\ h.provider = "C" => (h.class = "ok" /\ h.invocations = 1)

\* C10: in that scenario the finished call has returned C's result, the
\* histograms hold exactly one sample under the error-tagged key of A and of
\* B and one under the key of C, and the generate_text counters are exactly
\* error = 1 for A and for B and success = 1 for C.
C10_FallbackToC ==
  (gen.pc = "done" /\ ScenarioABC) =>
    /\ gen.result = "C"
    /\ DOMAIN histograms = {FailureKey("A"), FailureKey("B"), SuccessKey("C")}
    /\ \A k \in DOMAIN histograms : Len(histograms[k]) = 1
    /\ { k \in DOMAIN counters : k[1][1] = "provider" }
         = {ErrorCountKey("A"), ErrorCountKey("B"), SuccessCountKey("C")}
    /\ \A k \in DOMAIN counters : k[1][1] = "provider" => counters[k] = 1

C10_Witness ==
  /\ gen.pc = "done"
  /\ ScenarioABC
  /\ gen.result = "C"
  /\ gen.tried = <<"A", "B", "C">>
  /\ gen.hops[1].invocations = 2

\* samples recorded for provider.generate_text under the tag provider:name,
\* with or without the error tag
SamplesOf(hists, name) ==
  (IF SuccessKey(name) \in DOMAIN hists THEN Len(hists[SuccessKey(name)]) ELSE 0)
  + (IF FailureKey(name) \in DOMAIN hists THEN Len(hists[FailureKey(name)]) ELSE 0)

\* C11: every backend attempt generateText makes (its tryProvider call has
\* ended, whatever the outcome) adds one sample to the metrics collector
\* under the tag of that backend's name.
C11_EveryAttemptReported ==
  [][ Len(gen'.hops) = Len(gen.hops) + 1
        => LET name == gen'.hops[Len(gen'.hops)].provider IN
           SamplesOf(histograms', name) = SamplesOf(histograms, name) + 1 ]_vars

----------------------------------------------------------------------------
(* EnhancedProviderManager.getProvider and SPOT.generate *)

ProviderTypes == {"mock", "openai", "anthropic", "gemini"}

\* the provider types ProviderFactory.getApiKey has an environment variable for
KeyedTypes == {"openai", "anthropic", "gemini"}

\* a name no case of ProviderFactory knows
OtherName == "other"

RequestNames == ProviderTypes \cup {OtherName}

\* ProviderFactory.getApiKey(providerType): the key, or "" for what `if (apiKey)`
\* takes as absent (undefined, null)
getApiKey(providerType) ==
  IF providerType \in KeyedTypes /\ providerType \in env THEN "key" ELSE ""

\* ProviderFactory.createProvider(type, apiKey), for the types it is called with
createProvider(type) ==
  [ name |-> type, kind |-> IF type = "mock" THEN "mock" ELSE "api" ]

\* new MockProvider.default()
NewMockProvider == createProvider("mock")

\* getProvider(providerName): the provider it returns and the maps it leaves
\* behind.  It has no throw of its own and catches those of the factory.
resolveProvider(providerName) ==
  LET same == [ providers |-> providers, circuitBreakers |-> circuitBreakers ]
      default ==
        IF Len(providers) > 0
          THEN same @@ [ provider |-> providers[1] ]
          ELSE same @@ [ provider |-> NewMockProvider ]
  IN
  IF providerName = "none" THEN default
  ELSE IF HasProvider(providerName)
    THEN same @@ [ provider |-> GetProvider(providerName) ]
  ELSE IF providerName = "mock"
    THEN [ provider |-> createProvider("mock"),
           providers |-> Append(providers, createProvider("mock")),
           circuitBreakers |-> circuitBreakers ]
  ELSE IF getApiKey(providerName) # ""
    THEN [ provider |-> createProvider(providerName),
           providers |-> Append(providers, createProvider(providerName)),
           circuitBreakers |->
             circuitBreakers @@
               (providerName :>
                  NewCircuitBreaker(DefaultThreshold, DefaultTimeout)) ]
  ELSE default

\* await manager.getProvider(providerName) has returned
getProvider(providerName) ==
  LET r == resolveProvider(providerName) IN
  /\ providers' = r.providers
  /\ circuitBreakers' = r.circuitBreakers
  /\ out' = [ op |-> "getProvider", requested |-> providerName,
              provider |-> r.provider, threw |-> FALSE ]
  /\ UNCHANGED <<now, cbVars, rt, metricVars, fallbackChain, gen, chainSets,
                 env, experiments, spot>>

\* getProviderStatus(): the state of each provider's breaker, or the TypeError
\* of `circuitBreaker.getState()` on a breaker that is undefined
getProviderStatus ==
  /\ out' = IF \A i \in 1..Len(providers) :
                 providers[i].name \in DOMAIN circuitBreakers
              THEN [ op |-> "getProviderStatus", threw |-> FALSE,
                     status |-> [i \in 1..Len(providers) |->
                                   circuitBreakers[providers[i].name].state] ]
              ELSE [ op |-> "getProviderStatus", threw |-> TRUE,
                     status |-> "TypeError" ]
  /\ UNCHANGED <<now, cbVars, rt, metricVars, pmVars, env, experiments, spot>>

\* process.env.<TYPE>_API_KEY = ... / delete process.env.<TYPE>_API_KEY
setApiKey(type, present) ==
  /\ env' = IF present THEN env \cup {type} ELSE env \ {type}
  /\ env' # env
  /\ UNCHANGED <<now, cbVars, rt, metricVars, pmVars, experiments, spot, out>>

\* provider || templateConfig.provider || this.config.get('provider', 'openai')
spotProvider(option) == IF option # "none" THEN option ELSE "openai"

\* SPOT.generate(options), from its first line to its return or throw.
\* valid = the template and the input were loaded and passed validateInput,
\* ok = provider.generateText resolved
generate(option, valid, ok) ==
  /\ spot.generationsCount + spot.errors < MaxGenerations
  /\ IF ~valid THEN
       /\ spot' = [spot EXCEPT !.errors = @ + 1]
       /\ out' = [ op |-> "generate", requested |-> spotProvider(option),
                   provider |-> "none", invocations |-> 0,
                   result |-> "Error" ]
       /\ UNCHANGED <<providers, circuitBreakers>>
     ELSE
       LET r == resolveProvider(spotProvider(option)) IN
       /\ providers' = r.providers
       /\ circuitBreakers' = r.circuitBreakers
       /\ spot' = IF ok THEN [spot EXCEPT !.generationsCount = @ + 1]
                        ELSE [spot EXCEPT !.errors = @ + 1]
       /\ out' = [ op |-> "generate", requested |-> spotProvider(option),
                   provider |-> r.provider.name, invocations |-> 1,
                   result |-> IF ok THEN "success" ELSE "Error" ]
  /\ UNCHANGED <<now, cbVars, rt, metricVars, fallbackChain, gen, chainSets,
                 env, experiments>>

\* the managers SPOT is started with: providers handed to the constructor
\* (one breaker each, the chain is their names)
RECURSIVE RegisteredOfLen(_)
RegisteredOfLen(n) ==
  IF n = 0 THEN { << >> }
  ELSE { Append(c, t) : c \in RegisteredOfLen(n - 1), t \in ProviderTypes }

Registered ==
  { c \in UNION { RegisteredOfLen(n) : n \in 0..MaxRegistered } : NoRepeat(c) }

\* every breaker is new, or every breaker has counted its threshold-th
\* failure and is OPEN
InitApp ==
  /\ now = 1
  /\ \E reg \in Registered, open \in BOOLEAN :
       /\ providers = [i \in 1..Len(reg) |-> createProvider(reg[i])]
       /\ circuitBreakers =
            [n \in Range(reg) |->
               IF open THEN TrippedCircuitBreaker(now)
                       ELSE NewCircuitBreaker(DefaultThreshold, DefaultTimeout)]
       /\ fallbackChain = reg
  /\ env \in SUBSET KeyedTypes
  /\ gen = IdleGen(0)
  /\ chainSets = 0
  /\ rt = NoRetry
  /\ cb = NewCircuitBreaker(DefaultThreshold, DefaultTimeout)
  /\ calls = [c \in CallIds |-> IdleCall]
  /\ streak = 0
  /\ counters = << >>
  /\ histograms = << >>
  /\ experiments = << >>
  /\ spot = [ generationsCount |-> 0, errors |-> 0 ]
  /\ out = NoOutcome

NextApp ==
  \/ \E n \in RequestNames \cup {"none"} : getProvider(n)
  \/ \E t \in KeyedTypes, present \in BOOLEAN : setApiKey(t, present)
  \/ getProviderStatus
  \/ \E o \in RequestNames \cup {"none"}, valid \in BOOLEAN, ok \in BOOLEAN :
       generate(o, valid, ok)

SpecApp == InitApp /\ [][NextApp]_vars

\* getProvider is asked for a keyed backend that is not registered and whose
\* API key is not set
MissingKeyRequest(name) ==
  /\ name \in KeyedTypes
  /\ ~HasProvider(name)
  /\ getApiKey(name) = ""

\* C12: a reference to a backend that is not registered and whose API key
\* cannot be resolved is answered with an explicit error, never with another
\* provider in its place.
C12_NoSilentSubstitute ==
  [][ \A name \in RequestNames :
        (MissingKeyRequest(name) /\ out'.op = "getProvider"
           /\ out'.requested = name /\ out' # out)
          => out'.threw ]_vars

\* C13: getProvider for a backend whose API key is missing does not throw and
\* returns a mock provider, whatever the providers map holds.
C13_MockFallback ==
  [][ \A name \in RequestNames :
        (MissingKeyRequest(name) /\ out'.op = "getProvider"
           /\ out'.requested = name /\ out' # out)
          => (~out'.threw /\ out'.provider.kind = "mock") ]_vars

\* C20: the backend call SPOT.generate makes goes through the provider
\* manager's resilience layer: a backend whose breaker is OPEN and not yet due
\* is not invoked, and the outcome of the call is recorded in the metrics
\* collector under that backend's name.
C20_ThroughResilienceLayer ==
  [][ (out'.op = "generate" /\ spot' # spot /\ out'.provider # "none")
        => LET name == out'.provider IN
           /\ (name \in DOMAIN circuitBreakers
                 /\ rejects(circuitBreakers[name], now))
                => out'.invocations = 0
           /\ SamplesOf(histograms', name) = SamplesOf(histograms, name) + 1
     ]_vars

\* call c was refused by the OPEN breaker
Refused(c) == calls[c].pc = "done" /\ calls[c].invoked = 0

\* call c rethrew the error of its operation
OperationFailed(c) ==
  /\ calls[c].pc = "done"
  /\ calls[c].invoked = 1
  /\ calls[c].result \notin {"value", "fallback"}

\* C14: a call refused by the OPEN breaker returns the fallback's result when
\* a fallback was supplied; without one it ends with an error whose class
\* sets it apart from every error rethrown from a wrapped operation.
C14_RefusedCallOutcome ==
  \A c \in CallIds :
    Refused(c) =>
      IF calls[c].fb
        THEN calls[c].result = "fallback"
        ELSE /\ calls[c].result \notin {"value", "fallback"}
             /\ \A d \in CallIds :
                  OperationFailed(d) => calls[d].result # calls[c].result

----------------------------------------------------------------------------
(* SpecMet: one MetricsCollector and its callers *)

MetricNames == {GenerateTextMetric, <<"template", "render">>}

TagSets ==
  { NoTags, <<<<"provider", "A">>>>, <<<<"provider", "A">>, <<"error", "true">>>> }

\* the samples held by every histogram together
RECURSIVE TotalSamples(_)
TotalSamples(hists) ==
  IF DOMAIN hists = {} THEN 0
  ELSE LET k == CHOOSE k \in DOMAIN hists : TRUE IN
       Len(hists[k]) + TotalSamples([j \in DOMAIN hists \ {k} |-> hists[j]])

\* time(name, fn, tags), from its first line to its return or rethrow;
\* ok = fn resolved, durationMs = Date.now() - start
time(name, tags, ok, durationMs) ==
  /\ TotalSamples(histograms) < MaxSamples
  /\ LET m == timeRecord(counters, histograms, name, tags, ok, durationMs) IN
       /\ counters' = m.counters
       /\ histograms' = m.histograms
  /\ out' = [ op |-> "time", name |-> name, tags |-> tags, ok |-> ok,
              duration |-> durationMs ]
  /\ UNCHANGED <<now, cbVars, rt, pmVars, env, experiments, spot>>

\* getSummary()
getSummaryCall ==
  /\ LET r == getSummary(counters, histograms) IN
       /\ histograms' = r.histograms
       /\ out' = [ op |-> "getSummary", summary |-> r.summary ]
  /\ UNCHANGED <<now, cbVars, rt, counters, pmVars, env, experiments, spot>>

\* reset()
reset ==
  /\ counters' = << >>
  /\ histograms' = << >>
  /\ out' = [ op |-> "reset" ]
  /\ UNCHANGED <<now, cbVars, rt, pmVars, env, experiments, spot>>

InitMet ==
  /\ now = 1
  /\ NoApp
  /\ cb = NewCircuitBreaker(DefaultThreshold, DefaultTimeout)
  /\ calls = [c \in CallIds |-> IdleCall]
  /\ streak = 0
  /\ rt = NoRetry
  /\ counters = << >>
  /\ histograms = << >>
  /\ NoManager

NextMet ==
  \/ \E n \in MetricNames, t \in TagSets, ok \in BOOLEAN,
        d \in 0..MaxDuration : time(n, t, ok, d)
  \/ getSummaryCall
  \/ reset

SpecMet == InitMet /\ [][NextMet]_vars

\* histograms.get(key) and counters.get(key), empty or 0 when absent
SamplesAt(hists, key) == IF key \in DOMAIN hists THEN hists[key] ELSE << >>
CountAt(ctrs, key) == IF key \in DOMAIN ctrs THEN ctrs[key] ELSE 0

\* this step is a call of time()
TimeStep == out'.op = "time" /\ histograms' # histograms

\* in this step exactly one sample, the duration of the call, is appended to
\* the histogram hkey and exactly the counter ckey grows, by 1
RecordsOnce(hkey, ckey) ==
  /\ SamplesAt(histograms', hkey)
       = Append(SamplesAt(histograms, hkey), out'.duration)
  /\ \A k \in (DOMAIN histograms' \cup DOMAIN histograms) \ {hkey} :
       SamplesAt(histograms', k) = SamplesAt(histograms, k)
  /\ CountAt(counters', ckey) = CountAt(counters, ckey) + 1
  /\ \A k \in (DOMAIN counters' \cup DOMAIN counters) \ {ckey} :
       CountAt(counters', k) = CountAt(counters, k)

\* the counter of a time() call: <name>.success or <name>.error, under the
\* tags of the call
OutcomeCounter(o) ==
  getMetricKey(Append(o.name, IF o.ok THEN "success" ELSE "error"), o.tags)

\* C15 as stated: every call time(name, fn, tags) appends exactly one sample
\* to the histogram of that name and tag set, whether fn resolves or fails,
\* and adds 1 to exactly one counter, <name>.success or <name>.error.
C15_OneSampleSameKey ==
  [][ TimeStep
        => RecordsOnce(getMetricKey(out'.name, out'.tags),
                       OutcomeCounter(out')) ]_vars

\* C15, amended: every call time(name, fn, tags) appends exactly one sample,
\* to the histogram of that name and tag set when fn resolves and to the
\* histogram of that name and the tag set extended with error:true when fn
\* fails, and adds 1 to exactly one counter, <name>.success or <name>.error
\* under the tags of the call.
C15_OneSampleErrorTagged ==
  [][ TimeStep
        => RecordsOnce(
             getMetricKey(out'.name,
                          IF out'.ok THEN out'.tags
                          ELSE withTag(out'.tags, "error", "true")),
             OutcomeCounter(out')) ]_vars

\* a failed call has just been timed for the second time under the same
\* name and tags
C15_Witness ==
  /\ out.op = "time"
  /\ ~out.ok
  /\ out.tags = <<<<"provider", "A">>>>
  /\ getMetricKey(out.name, out.tags) \notin DOMAIN histograms
  /\ Len(SamplesAt(histograms,
                   getMetricKey(out.name, withTag(out.tags, "error", "true"))))
       = 2
  /\ CountAt(counters, OutcomeCounter(out)) = 2

----------------------------------------------------------------------------
(* TemplateManager: experiment results and their statistics *)

Max(a, b) == IF a > b THEN a ELSE b

\* percentile(values, p), p in hundredths
percentile(values, p) ==
  LET sorted == SortNum(values)
      index == CeilOf(Len(sorted), p) - 1
  IN At(sorted, Max(0, index))

\* data.map((d) => d.latency || 0)
Latencies(data) == [i \in 1..Len(data) |-> data[i].latency]

\* data.filter((d) => d.error).length
RECURSIVE Errors(_)
Errors(data) ==
  IF data = << >> THEN 0
  ELSE (IF Head(data).error THEN 1 ELSE 0) + Errors(Tail(data))

experimentResults_ok(experiment) ==
  LET withData == { t \in DOMAIN experiment.results :
                      Len(experiment.results[t]) # 0 } IN
  [ t \in withData |->
      LET data == experiment.results[t]
          latencies == Latencies(data) IN
      [ sampleSize |-> Len(data),
        errorRate |-> <<Len(data) - Errors(data), Len(data)>>,
        avgLatency |-> <<Sum(latencies), Len(latencies)>>,
        p95Latency |-> percentile(latencies, P95) ] ]

\* getExperimentResults(experimentId): `results`, one entry per template that
\* has data; the two quotients are kept as pairs
experimentResults(experiment) ==
  LET withData == { t \in DOMAIN experiment.results :
                      Len(experiment.results[t]) # 0 } IN
  [ t \in withData |->
      LET data == experiment.results[t]
          latencies == Latencies(data) IN
      [ sampleSize |-> Len(data),
        errorRate |-> <<Errors(data), Len(data)>>,
        avgLatency |-> <<Sum(latencies), Len(latencies)>>,
        p95Latency |-> percentile(latencies, P95) ] ]

\* getExperimentResults(experimentId)
getExperimentResults(experimentId) ==
  /\ out' = IF experimentId \in DOMAIN experiments
              THEN [ op |-> "getExperimentResults",
                     experimentId |-> experimentId,
                     duration |-> now - experiments[experimentId].startTime,
                     results |-> experimentResults(experiments[experimentId]) ]
              ELSE [ op |-> "getExperimentResults",
                     experimentId |-> experimentId, results |-> "null" ]
  /\ UNCHANGED <<now, cbVars, rt, metricVars, pmVars, env, experiments, spot>>

----------------------------------------------------------------------------
(* SpecPct: the same latencies recorded in a MetricsCollector histogram and  *)
(* as the results of one template of an experiment                          *)

\* 10, 20, ..., 10 * n, rotated by k places; 20 is the shortest length whose
\* product with 0.95 is an integer
Rotated(n, k) == [i \in 1..n |-> 10 * (((i + k - 1) % n) + 1)]

SampleLists == { Rotated(n, k) : n \in 1..MaxLen, k \in 0..MaxRot }

ExperimentList == <<"exp1", "exp2">>
ExperimentIds == Range(ExperimentList)
TemplateIds == <<"draft@1", "draft@2">>

InitPct ==
  /\ now = 1
  /\ \E samples \in SampleLists :
       /\ histograms = (getMetricKey(GenerateTextMetric, NoTags) :> samples)
       /\ experiments =
            ("exp1" :>
               [ templates |-> <<TemplateIds[1]>>,
                 trafficSplit |-> <<<<TemplateIds[1], 1000>>>>,
                 results |->
                   (TemplateIds[1] :>
                      [i \in 1..Len(samples) |->
                         [latency |-> samples[i], error |-> FALSE]]),
                 startTime |-> now ])
  /\ counters = << >>
  /\ env = {}
  /\ spot = [ generationsCount |-> 0, errors |-> 0 ]
  /\ out = NoOutcome
  /\ cb = NewCircuitBreaker(DefaultThreshold, DefaultTimeout)
  /\ calls = [c \in CallIds |-> IdleCall]
  /\ streak = 0
  /\ rt = NoRetry
  /\ NoManager

NextPct ==
  \/ getSummaryCall
  \/ \E id \in ExperimentIds : getExperimentResults(id)

SpecPct == InitPct /\ [][NextPct]_vars

\* C16: in a summary just returned, the p50, p95 and p99 of every non-empty
\* histogram are the sample at index max(0, ceil(p * count) - 1) of its
\* samples in ascending order (p50 = 30 and p95 = 50 for 10, 20, 30, 40, 50).
C16_PercentileRule ==
  out.op = "getSummary" =>
    \A k \in DOMAIN histograms :
      LET sorted == SortNum(histograms[k])
          h == out.summary.histograms[k]
          Rule(p) == At(sorted, Max(0, CeilOf(Len(sorted), p) - 1))
      IN sorted # << >>
           => (h.p50 = Rule(P50) /\ h.p95 = Rule(P95) /\ h.p99 = Rule(P99))

\* C19: the p95Latency getExperimentResults has just reported for a template,
\* which is percentile(latencies, 0.95), is the p95 getSummary reports for a
\* histogram holding the same samples.
C19_SameP95 ==
  (out.op = "getExperimentResults" /\ out.experimentId \in DOMAIN experiments)
    => \A t \in DOMAIN out.results :
         LET latencies == Latencies(experiments[out.experimentId].results[t])
             key == getMetricKey(GenerateTextMetric, NoTags)
         IN /\ out.results[t].p95Latency = percentile(latencies, P95)
            /\ SortNum(histograms[key]) = SortNum(latencies)
                 => out.results[t].p95Latency
                      = getSummary(counters, histograms).summary
                          .histograms[key].p95

----------------------------------------------------------------------------
(* TemplateManager: A/B experiments.  Weights and hash values are counted  *)
(* in ten-thousandths, so that 1.0 is One and 0.001 is Tolerance.          *)

One == 10000
Tolerance == 10

\* the weights a traffic split is written with; no sum of them lies exactly
\* 0.001 away from 1.0, where the outcome would hang on floating-point
\* rounding
Weights == {0, 4996, 5007, One}

\* a traffic split: its entries <<templateId, weight>> in declaration order
RECURSIVE SplitsOfLen(_)
SplitsOfLen(n) ==
  IF n = 0 THEN { << >> }
  ELSE { Append(sp, <<TemplateIds[n], w>>) :
           sp \in SplitsOfLen(n - 1), w \in Weights }

TrafficSplits == UNION { SplitsOfLen(n) : n \in 0..Len(TemplateIds) }

\* Object.values(trafficSplit).reduce((a, b) => a + b, 0)
totalTraffic(trafficSplit) ==
  Sum([i \in 1..Len(trafficSplit) |-> trafficSplit[i][2]])

Abs(x) == IF x < 0 THEN 0 - x ELSE x

\* startExperiment(experimentId, templates, trafficSplit) at time t: the
\* experiments afterwards and how the call ended
startExperiment_set(exps, experimentId, trafficSplit, t) ==
  LET started ==
        [ templates |-> [i \in 1..Len(trafficSplit) |-> trafficSplit[i][1]],
          trafficSplit |-> trafficSplit,
          results |-> << >>,
          startTime |-> t ]
      set == [ id \in DOMAIN exps \cup {experimentId} |->
                 IF id = experimentId THEN started ELSE exps[id] ]
  IN IF Abs(totalTraffic(trafficSplit) - One) > Tolerance
       THEN [ experiments |-> set, result |-> "ValidationError" ]
       ELSE [ experiments |-> set, result |-> "undefined" ]

startExperiment(exps, experimentId, trafficSplit, t) ==
  LET started ==
        [ templates |-> [i \in 1..Len(trafficSplit) |-> trafficSplit[i][1]],
          trafficSplit |-> trafficSplit,
          results |-> << >>,
          startTime |-> t ]
      set == [ id \in DOMAIN exps \cup {experimentId} |->
                 IF id = experimentId THEN started ELSE exps[id] ]
  IN IF Abs(totalTraffic(trafficSplit) - One) > Tolerance
       THEN [ experiments |-> exps, result |-> "ValidationError" ]
       ELSE [ experiments |-> set, result |-> "undefined" ]

\* the user ids getTemplateForExperiment is called with, and hashUserId of
\* each: '' is md5 d41d8cd9..., the others stand for ids whose digest falls
\* at 0, on a cumulative weight, between two, and at ffffffff
UserIds == {"", "u0", "u4996", "u6000", "u10000"}

hashUserId(userId) ==
  CASE userId = "" -> 8286
    [] userId = "u0" -> 0
    [] userId = "u4996" -> 4996
    [] userId = "u6000" -> 6000
    [] userId = "u10000" -> One

\* the values Math.random() is drawn from, in [0, 1)
RandomValues == {0, 6000, 9999}

\* if (hash <= cumulative)
reaches_lt(hash, cumulative) == hash < cumulative

reaches(hash, cumulative) == hash <= cumulative

\* the loop over Object.entries(trafficSplit) from entry i on, and the
\* fallback to Object.keys(trafficSplit)[0] after it
RECURSIVE walk(_, _, _, _)
walk(trafficSplit, i, cumulative, hash) ==
  IF i > Len(trafficSplit)
    THEN IF trafficSplit = << >> THEN "undefined" ELSE trafficSplit[1][1]
  ELSE IF reaches(hash, cumulative + trafficSplit[i][2])
    THEN trafficSplit[i][1]
  ELSE walk(trafficSplit, i + 1, cumulative + trafficSplit[i][2], hash)

\* startExperiment is called
startExperimentCall(experimentId, trafficSplit) ==
  /\ LET r == startExperiment(experiments, experimentId, trafficSplit, now) IN
       /\ experiments' = r.experiments
       /\ out' = [ op |-> "startExperiment", experimentId |-> experimentId,
                   total |-> totalTraffic(trafficSplit), result |-> r.result ]
  /\ UNCHANGED <<now, cbVars, rt, metricVars, pmVars, env, spot>>

\* getTemplateForExperiment(experimentId, userId) is called; userId is "none"
\* when the argument is left out, random is what Math.random() returns if
\* it is called
getTemplateForExperiment(experimentId, userId, random) ==
  /\ out' =
       IF experimentId \notin DOMAIN experiments
         THEN [ op |-> "getTemplateForExperiment",
                experimentId |-> experimentId, userId |-> userId,
                hash |-> Null, result |-> "ValidationError" ]
         ELSE LET hash == IF userId \notin {"none", ""}
                            THEN hashUserId(userId) ELSE random
              IN [ op |-> "getTemplateForExperiment",
                   experimentId |-> experimentId, userId |-> userId,
                   hash |-> hash,
                   result |-> walk(experiments[experimentId].trafficSplit,
                                   1, 0, hash) ]
  /\ UNCHANGED <<now, cbVars, rt, metricVars, pmVars, env, experiments, spot>>

\* the counters added up: the records made so far, when no one else counts
RECURSIVE TotalCount(_)
TotalCount(ctrs) ==
  IF DOMAIN ctrs = {} THEN 0
  ELSE LET k == CHOOSE k \in DOMAIN ctrs : TRUE IN
       ctrs[k] + TotalCount([j \in DOMAIN ctrs \ {k} |-> ctrs[j]])

\* recordExperimentResult(experimentId, templateId, metrics_data)
recordExperimentResult(experimentId, templateId, latency, error) ==
  /\ TotalCount(counters) < MaxResults
  /\ IF experimentId \notin DOMAIN experiments
       THEN UNCHANGED <<experiments, counters>>
       ELSE
         LET results == experiments[experimentId].results
             record == [ timestamp |-> now, latency |-> latency,
                         error |-> error ]
         IN
         /\ experiments' =
              [experiments EXCEPT ![experimentId].results =
                 IF templateId \in DOMAIN results
                   THEN [results EXCEPT ![templateId] = Append(@, record)]
                   ELSE results @@ (templateId :> <<record>>)]
         /\ counters' =
              increment(counters, <<"experiment", "result_recorded">>, 1,
                        <<<<"experiment", experimentId>>,
                          <<"template", templateId>>>>)
  /\ out' = [ op |-> "recordExperimentResult", experimentId |-> experimentId,
              templateId |-> templateId, latency |-> latency,
              error |-> error ]
  /\ UNCHANGED <<now, cbVars, rt, histograms, pmVars, env, spot>>

\* an experiment started earlier for which one result has been recorded
EarlierExperiment ==
  [ templates |-> TemplateIds,
    trafficSplit |-> <<<<TemplateIds[1], 4996>>, <<TemplateIds[2], 5007>>>>,
    results |-> (TemplateIds[2] :>
                   <<[timestamp |-> 0, latency |-> 10, error |-> TRUE]>>),
    startTime |-> 0 ]

\* the manager is new, or exp2 was started and used earlier (and
\* metrics.reset() called since)
InitExp ==
  /\ now = 1
  /\ env = {}
  /\ spot = [ generationsCount |-> 0, errors |-> 0 ]
  /\ out = NoOutcome
  /\ experiments \in { << >>, (ExperimentList[2] :> EarlierExperiment) }
  /\ cb = NewCircuitBreaker(DefaultThreshold, DefaultTimeout)
  /\ calls = [c \in CallIds |-> IdleCall]
  /\ streak = 0
  /\ rt = NoRetry
  /\ counters = << >>
  /\ histograms = << >>
  /\ NoManager

NextExp ==
  \/ \E sp \in TrafficSplits : startExperimentCall(ExperimentList[1], sp)
  \/ \E id \in ExperimentIds, u \in UserIds \cup {"none"} :
       \E rnd \in IF u \in {"none", ""} THEN RandomValues ELSE {0} :
         getTemplateForExperiment(id, u, rnd)
  \/ \E id \in ExperimentIds, t \in Range(TemplateIds), error \in BOOLEAN :
       recordExperimentResult(id, t, 10, error)
  \/ \E id \in ExperimentIds : getExperimentResults(id)

SpecExp == InitExp /\ [][NextExp]_vars

\* this step is a call of startExperiment
StartStep ==
  /\ out'.op = "startExperiment"
  /\ out' # out \/ experiments' # experiments

\* C17: startExperiment succeeds when the weights sum to 1.0 within 0.001 and
\* then holds the experiment started; otherwise it throws its validation
\* error and every experiment, the one of the same id and its recorded
\* results included, is as before.
C17_StartExperimentChecksWeights ==
  [][ StartStep
        => IF Abs(out'.total - One) <= Tolerance
             THEN /\ out'.result = "undefined"
                  /\ out'.experimentId \in DOMAIN experiments'
                  /\ totalTraffic(experiments'[out'.experimentId].trafficSplit)
                       = out'.total
             ELSE /\ out'.result = "ValidationError"
                  /\ experiments' = experiments ]_vars

\* exp1 has a recorded result and a restart of it with weights summing to
\* 1.0014 has just been refused
C17_Witness ==
  /\ out.op = "startExperiment"
  /\ out.result = "ValidationError"
  /\ out.total = 10014
  /\ out.experimentId \in DOMAIN experiments
  /\ DOMAIN experiments[out.experimentId].results # {}
  /\ ExperimentList[2] \in DOMAIN experiments

\* the weights of the first i entries added up
Cumulative(trafficSplit, i) ==
  Sum([j \in 1..i |-> trafficSplit[j][2]])

\* the first variant in declaration order whose cumulative weight meets or
\* exceeds the hash, the first declared variant when none does
FirstReaching(trafficSplit, hash) ==
  LET reaching == { i \in 1..Len(trafficSplit) :
                      Cumulative(trafficSplit, i) >= hash } IN
  IF reaching = {} THEN trafficSplit[1][1]
  ELSE trafficSplit[CHOOSE i \in reaching : \A j \in reaching : i <= j][1]

\* this step is a call of getTemplateForExperiment on a started experiment
AssignStep ==
  /\ out'.op = "getTemplateForExperiment"
  /\ out' # out
  /\ out'.experimentId \in DOMAIN experiments

\* the call of this step repeats the one before it
RepeatsCall ==
  /\ out.op = "getTemplateForExperiment"
  /\ out.experimentId = out'.experimentId
  /\ out.userId = out'.userId

\* C18 as stated: for a started experiment and any user id passed,
\* getTemplateForExperiment returns the first variant whose cumulative weight
\* meets or exceeds the hash of the id (the first variant when none does),
\* the same on every call.
C18_SameVariantAnyKey ==
  [][ (AssignStep /\ out'.userId # "none")
        => /\ out'.result =
                FirstReaching(experiments[out'.experimentId].trafficSplit,
                              hashUserId(out'.userId))
           /\ RepeatsCall => out'.result = out.result ]_vars

\* C18, amended: the same for any non-empty user id passed.
C18_SameVariantNonEmptyKey ==
  [][ (AssignStep /\ out'.userId \notin {"none", ""})
        => /\ out'.result =
                FirstReaching(experiments[out'.experimentId].trafficSplit,
                              hashUserId(out'.userId))
           /\ RepeatsCall => out'.result = out.result ]_vars

\* the user whose hash is 0.6 has been given the second variant of a split
\* 0.4996 / 0.5007
C18_Witness ==
  /\ out.op = "getTemplateForExperiment"
  /\ out.userId = "u6000"
  /\ out.experimentId = ExperimentList[1]
  /\ out.experimentId \in DOMAIN experiments
  /\ experiments[out.experimentId].trafficSplit
       = <<<<TemplateIds[1], 4996>>, <<TemplateIds[2], 5007>>>>
  /\ out.result = TemplateIds[2]

----------------------------------------------------------------------------
(* Further properties of the circuit breaker *)

\* C23: the failure count is set to zero only by an operation that succeeds
\* while the breaker is CLOSED or HALF_OPEN; a success arriving while the
\* breaker is OPEN leaves the failure count as it is.
C23_ResetOnlyWhenNotOpen ==
  [][ /\ (cb.failures # 0 /\ cb'.failures = 0)
           => \E c \in CallIds :
                Settles(c) /\ calls'[c].opOk
                  /\ cb.state \in {"CLOSED", "HALF_OPEN"}
      /\ \A c \in CallIds :
           (Settles(c) /\ calls'[c].opOk /\ cb.state = "OPEN")
             => cb'.failures = cb.failures ]_vars

\* C30: when the operation of an admitted call fails and a fallback was
\* passed, the call returns the fallback's result exactly when the breaker is
\* OPEN once the failure is recorded, and otherwise rethrows the operation's
\* error.
C30_FallbackOnlyWhenOpen ==
  [][ \A c \in CallIds :
        (Settles(c) /\ ~calls'[c].opOk /\ calls'[c].fb)
          => /\ calls'[c].result = "fallback" <=> cb'.state = "OPEN"
             /\ cb'.state # "OPEN" => calls'[c].result \in OperationErrors
    ]_vars

\* with threshold 2, a call that passed a fallback has rethrown its
\* operation's error and left the breaker CLOSED, and a later one has opened
\* the breaker and returned the fallback's result
C30_Witness ==
  /\ cb.threshold = 2
  /\ cb.state = "OPEN"
  /\ \E c, d \in CallIds :
       /\ OperationFailed(c) /\ calls[c].fb
       /\ calls[d].pc = "done" /\ calls[d].invoked = 1 /\ ~calls[d].opOk
       /\ calls[d].fb /\ calls[d].result = "fallback"

----------------------------------------------------------------------------
(* Further properties of generateText *)

\* C27: the failure count of a backend's breaker moves only when a
\* tryProvider call on that backend ends, and then by one step whatever the
\* number of invocations retried inside the call: a call whose backend was
\* invoked and failed adds exactly 1, and a breaker opens only on such a
\* call, with its count at the threshold.
C27_OneFailurePerCall ==
  [][ LET HopEnds == Len(gen'.hops) = Len(gen.hops) + 1 IN
      /\ ~HopEnds
        => \A n \in DOMAIN circuitBreakers :
             circuitBreakers'[n].failures = circuitBreakers[n].failures
      /\ HopEnds
        => LET h == gen'.hops[Len(gen'.hops)] IN
           \A n \in DOMAIN circuitBreakers :
             LET b == circuitBreakers[n]
                 a == circuitBreakers'[n]
             IN IF n = h.provider /\ h.invocations >= 1
                  THEN /\ h.class = "ok" => a.failures = 0
                       /\ h.class # "ok" => a.failures = b.failures + 1
                       /\ (b.state # "OPEN" /\ a.state = "OPEN")
                            => (h.class # "ok" /\ a.failures >= a.threshold)
                  ELSE a.failures = b.failures /\ a.state = b.state ]_vars

\* on a new manager a backend was invoked twice inside one tryProvider call,
\* failed both times, and its breaker has counted one failure
C27_Witness ==
  \E i \in 1..Len(gen.hops) :
    /\ gen.hops[i].invocations = 2
    /\ gen.hops[i].class # "ok"
    /\ circuitBreakers[gen.hops[i].provider].failures = 1
    /\ circuitBreakers[gen.hops[i].provider].state = "CLOSED"

\* C28: within one generateText call no backend name is passed to
\* tryProvider twice.
C28_EachBackendOnce == NoRepeat(gen.tried)

----------------------------------------------------------------------------
(* Further properties of the provider registry *)

\* C24: every provider in the providers map has a breaker in the
\* circuitBreakers map, so getProviderStatus finds one for each.
C24_BreakerPerProvider ==
  /\ \A i \in 1..Len(providers) :
       providers[i].name \in DOMAIN circuitBreakers
  /\ out.op = "getProviderStatus" => ~out.threw

----------------------------------------------------------------------------
(* Further properties of the metrics collector *)

\* C25: getSummary leaves every stored sample sequence as it was, same
\* elements in the same order; a stored sequence changes only by an append
\* of recordTime or by reset.
C25_SummaryReadOnly ==
  [][ /\ out'.op = "getSummary" => histograms' = histograms
      /\ \A k \in DOMAIN histograms :
           \/ k \in DOMAIN histograms'
                /\ Len(histograms'[k]) >= Len(histograms[k])
                /\ SubSeq(histograms'[k], 1, Len(histograms[k]))
                     = histograms[k]
           \/ out'.op = "reset" ]_vars

----------------------------------------------------------------------------
(* Further properties of the experiments *)

\* C22: a recordExperimentResult call on a started experiment appends the
\* record passed to the list of the variant named and changes no other list
\* and no other experiment, no other call but a start changes a list, and
\* getExperimentResults reports for each variant with records sampleSize =
\* their number and errorRate = (those with error) / sampleSize.
C22_ResultsAccumulate ==
  [][ LET RecordStep ==
            /\ out'.op = "recordExperimentResult"
            /\ out'.experimentId \in DOMAIN experiments
            /\ counters' # counters
          ResultsOf(experiment, t) ==
            IF t \in DOMAIN experiment.results
              THEN experiment.results[t] ELSE << >>
      IN
      /\ RecordStep
        => LET id == out'.experimentId IN
           /\ DOMAIN experiments' = DOMAIN experiments
           /\ \A j \in DOMAIN experiments \ {id} :
                experiments'[j] = experiments[j]
           /\ experiments'[id].trafficSplit = experiments[id].trafficSplit
           /\ \A t \in Range(TemplateIds) :
                ResultsOf(experiments'[id], t) =
                  IF t = out'.templateId
                    THEN Append(ResultsOf(experiments[id], t),
                                [ timestamp |-> now,
                                  latency |-> out'.latency,
                                  error |-> out'.error ])
                    ELSE ResultsOf(experiments[id], t)
      /\ (~RecordStep /\ ~StartStep) => experiments' = experiments
      /\ (out'.op = "getExperimentResults"
            /\ out'.experimentId \in DOMAIN experiments)
        => \A t \in Range(TemplateIds) :
             LET data == ResultsOf(experiments[out'.experimentId], t)
                 withError == { i \in 1..Len(data) : data[i].error }
             IN IF data = << >>
                  THEN t \notin DOMAIN out'.results
                  ELSE /\ t \in DOMAIN out'.results
                       /\ out'.results[t].sampleSize = Len(data)
                       /\ out'.results[t].errorRate
                            = <<Cardinality(withError), Len(data)>> ]_vars

\* two results, one of them an error, were recorded for the first variant
\* of exp1 and getExperimentResults has reported them
C22_Witness ==
  /\ out.op = "getExperimentResults"
  /\ out.experimentId = ExperimentList[1]
  /\ out.experimentId \in DOMAIN experiments
  /\ TemplateIds[1] \in DOMAIN out.results
  /\ out.results[TemplateIds[1]].sampleSize = 2
  /\ out.results[TemplateIds[1]].errorRate = <<1, 2>>
  /\ ~experiments[out.experimentId].results[TemplateIds[1]][1].error

\* C29: the variant getTemplateForExperiment returns for a started
\* experiment has a weight greater than 0.
C29_NoZeroWeightVariant ==
  [][ AssignStep
        => LET trafficSplit == experiments[out'.experimentId].trafficSplit
               i == CHOOSE k \in 1..Len(trafficSplit) :
                      trafficSplit[k][1] = out'.result
           IN trafficSplit[i][2] > 0 ]_vars

----------------------------------------------------------------------------
(* Style linter.  A text is a sequence of characters. *)

\* the lowercase letters and the vowels among them
LowerLetters == {"a", "b", "d", "e", "l", "s", "y"}
Vowels == {"a", "e", "y"}
UpperCase == ("A" :> "a") @@ ("B" :> "b")

toLowerCase_same(text) == text

\* String.prototype.toLowerCase
toLowerCase(text) ==
  [ i \in 1..Len(text) |->
      IF text[i] \in DOMAIN UpperCase THEN UpperCase[text[i]] ELSE text[i] ]

\* String.prototype.includes
includes(text, term) ==
  \E i \in 0..(Len(text) - Len(term)) : SubSeq(text, i + 1, i + Len(term)) = term

\* number of matches of /[class]+/g: the maximal runs of characters of class
Runs(text, class) ==
  Cardinality({ i \in 1..Len(text) :
                  text[i] \in class /\ (i = 1 \/ text[i - 1] \notin class) })

\* w.replace(/(?:[^laeiouy]es|ed|[^laeiouy]e)$/, '').replace(/^y/, '')
strip(w) ==
  LET n == Len(w)
      NotLOrVowel == LowerLetters \ ({"l"} \cup Vowels)
      cut == IF n >= 3 /\ w[n - 2] \in NotLOrVowel
                       /\ w[n - 1] = "e" /\ w[n] = "s"
               THEN SubSeq(w, 1, n - 3)
             ELSE IF n >= 2 /\ w[n - 1] = "e" /\ w[n] = "d"
               THEN SubSeq(w, 1, n - 2)
             ELSE IF n >= 2 /\ w[n - 1] \in NotLOrVowel /\ w[n] = "e"
               THEN SubSeq(w, 1, n - 2)
             ELSE w
  IN IF cut # << >> /\ cut[1] = "y" THEN Tail(cut) ELSE cut

\* number of matches of /[aeiouy]{1,2}/g from index i on: each match takes
\* two vowels when two follow each other, else one
RECURSIVE vowelMatches(_, _)
vowelMatches(syl, i) ==
  IF i > Len(syl) THEN 0
  ELSE IF syl[i] \notin Vowels THEN vowelMatches(syl, i + 1)
  ELSE IF i + 1 <= Len(syl) /\ syl[i + 1] \in Vowels
    THEN 1 + vowelMatches(syl, i + 2)
    ELSE 1 + vowelMatches(syl, i + 1)

\* the loop of countSyllables over the matches of /[a-z]+/g from index i on;
\* j is the last index of the match that starts at i
RECURSIVE syllablesFrom(_, _)
syllablesFrom(lower, i) ==
  IF i > Len(lower) THEN 0
  ELSE IF lower[i] \notin LowerLetters THEN syllablesFrom(lower, i + 1)
  ELSE LET j == CHOOSE e \in i..Len(lower) :
                  /\ \A k \in i..e : lower[k] \in LowerLetters
                  /\ e = Len(lower) \/ lower[e + 1] \notin LowerLetters
           syl == strip(SubSeq(lower, i, j))
           m == vowelMatches(syl, 1)
       IN (IF m = 0 THEN 1 ELSE m) + syllablesFrom(lower, j + 1)

countSyllables(text) == syllablesFrom(toLowerCase(text), 1)

\* fleschKincaidGrade(text), in tenths: Math.round(grade * 10) is
\* floor(grade * 10 + 1/2), computed exactly over the common denominator
fleschKincaidGrade(text) ==
  LET sentences == Max(1, Runs(text, {".", "!", "?"}))
      words == Max(1, Runs(text, LowerLetters \cup DOMAIN UpperCase))
      syllables == countSyllables(text)
      n == 39 * words * words + 1180 * syllables * sentences
             - 1559 * sentences * words
      d == 10 * sentences * words
  IN Max(0, (2 * n + d) \div (2 * d))

\* parseReadingBand(band): the two numbers of the band, [0, 20] without two
parseReadingBand(band) ==
  CASE band = "Grade 8-10" -> <<8, 10>>
    [] band = "Grade 0-2" -> <<0, 2>>
    [] OTHER -> <<0, 20>>

----------------------------------------------------------------------------
(* SpecLint: one text and one style pack, checked by lintStyle and by the *)
(* style-check endpoint.                                                   *)

\* the sequences of n characters
RECURSIVE CharSeqs(_, _)
CharSeqs(chars, n) ==
  IF n = 0 THEN { << >> }
  ELSE { Append(t, c) : t \in CharSeqs(chars, n - 1), c \in chars }

InitLint ==
  /\ now = 1
  /\ LET TextChars == {"a", "A", "b", "B", "."}
         \* the terms of the style packs, all different and none empty
         Terms == { <<"a">>, <<"A">>, <<"A", "b">>, <<"b", "a">>,
                    <<"B", ".">> }
         StylePacks ==
           [ must_avoid : { << >> } \cup { <<t>> : t \in Terms }
                            \cup { p \in Terms \X Terms : p[1] # p[2] },
             must_use : { << >>, <<<<"b">>>> },
             reading_level : { "", "Grade 0-2" } ]
     IN \E text \in UNION { CharSeqs(TextChars, n) : n \in 0..MaxText },
           stylePack \in StylePacks :
          out = [ op |-> "input", text |-> text, stylePack |-> stylePack ]
  /\ counters = << >>
  /\ histograms = << >>
  /\ env = {}
  /\ experiments = << >>
  /\ spot = [ generationsCount |-> 0, errors |-> 0 ]
  /\ cb = NewCircuitBreaker(DefaultThreshold, DefaultTimeout)
  /\ calls = [c \in CallIds |-> IdleCall]
  /\ streak = 0
  /\ rt = NoRetry
  /\ NoManager

\* lintStyle(text, stylePack) and the report it returns
lintStyle ==
  /\ out' =
       [ op |-> "lintStyle", text |-> out.text, stylePack |-> out.stylePack,
         report |->
           LET lower == toLowerCase(out.text)
               readingLevel == fleschKincaidGrade(out.text)
               band == parseReadingBand(IF out.stylePack.reading_level = ""
                                          THEN "Grade 8-10"
                                          ELSE out.stylePack.reading_level)
           IN [ banned |->
                  SelectSeq(out.stylePack.must_avoid,
                            LAMBDA b : includes(lower, toLowerCase(b))),
                missingRequired |->
                  SelectSeq(out.stylePack.must_use,
                            LAMBDA r : ~includes(lower, toLowerCase(r))),
                readingLevelOk |->
                  /\ readingLevel >= 10 * band[1]
                  /\ readingLevel <= 10 * band[2],
                readingLevel |-> readingLevel ] ]
  /\ UNCHANGED <<now, cbVars, rt, metricVars, pmVars, env, experiments, spot>>

\* handleStyleCheck(req, res) with req.body.content = the text; readable =
\* the style pack file was read and parsed
handleStyleCheck(readable) ==
  /\ out' =
       [ op |-> "handleStyleCheck", text |-> out.text,
         stylePack |-> out.stylePack,
         response |->
           IF out.text = << >>
             THEN [ status |-> 400, error |-> "content is required" ]
           ELSE IF ~readable
             THEN [ status |-> 500, error |-> "ENOENT" ]
           ELSE LET found ==
                      SelectSeq(out.stylePack.must_avoid,
                        LAMBDA term :
                          includes(toLowerCase(out.text), toLowerCase(term)))
                    violations ==
                      [ i \in 1..Len(found) |->
                          [ type |-> "must_avoid", term |-> found[i] ] ]
                IN [ status |-> 200,
                     violations |-> violations,
                     compliant |-> Len(violations) = 0,
                     stylepack |-> out.stylePack ] ]
  /\ UNCHANGED <<now, cbVars, rt, metricVars, pmVars, env, experiments, spot>>

NextLint ==
  \/ lintStyle
  \/ \E readable \in BOOLEAN : handleStyleCheck(readable)

SpecLint == InitLint /\ [][NextLint]_vars

\* C21: lintStyle reports as banned exactly the must_avoid terms that occur
\* in the text as a case-insensitive substring, each once; the style-check
\* endpoint, when it answers with a report, lists the same terms as
\* violations and marks the result compliant = false whenever it lists one.
C21_BannedTermsReported ==
  LET SameLetter(c, d) ==
        \/ c = d
        \/ c \in DOMAIN UpperCase /\ UpperCase[c] = d
        \/ d \in DOMAIN UpperCase /\ UpperCase[d] = c
      Occurs(term) ==
        \E i \in 0..(Len(out.text) - Len(term)) :
          \A k \in 1..Len(term) : SameLetter(out.text[i + k], term[k])
      must_avoid == out.stylePack.must_avoid
      ExactlyTheBanned(reported) ==
        /\ \A i \in 1..Len(reported) :
             reported[i] \in Range(must_avoid) /\ Occurs(reported[i])
        /\ \A t \in Range(must_avoid) :
             Occurs(t)
               => Cardinality({ i \in 1..Len(reported) : reported[i] = t }) = 1
  IN /\ out.op = "lintStyle" => ExactlyTheBanned(out.report.banned)
     /\ (out.op = "handleStyleCheck" /\ out.response.status = 200)
          => /\ ExactlyTheBanned([ i \in 1..Len(out.response.violations) |->
                                    out.response.violations[i].term ])
             /\ Len(out.response.violations) > 0
                  => out.response.compliant = FALSE

\* the endpoint has reported the term "Ab", written "aB" in the text, and
\* not the other term of the pack, and has marked the text non-compliant
C21_Witness ==
  /\ out.op = "handleStyleCheck"
  /\ out.response.status = 200
  /\ out.stylePack.must_avoid = << <<"b", "a">>, <<"A", "b">> >>
  /\ out.text = <<".", "a", "B">>
  /\ out.response.violations =
       << [ type |-> "must_avoid", term |-> <<"A", "b">> ] >>
  /\ out.response.compliant = FALSE

----------------------------------------------------------------------------
(* SpecSyl: countSyllables over one lowercase alphabetic token.            *)

InitSyl ==
  /\ now = 1
  /\ \E token \in UNION { CharSeqs(LowerLetters, n) : n \in 1..MaxToken } :
       out = [ op |-> "input", text |-> token ]
  /\ counters = << >>
  /\ histograms = << >>
  /\ env = {}
  /\ experiments = << >>
  /\ spot = [ generationsCount |-> 0, errors |-> 0 ]
  /\ cb = NewCircuitBreaker(DefaultThreshold, DefaultTimeout)
  /\ calls = [c \in CallIds |-> IdleCall]
  /\ streak = 0
  /\ rt = NoRetry
  /\ NoManager

countSyllablesCall ==
  /\ out' = [ op |-> "countSyllables", text |-> out.text,
              count |-> countSyllables(out.text) ]
  /\ UNCHANGED <<now, cbVars, rt, metricVars, pmVars, env, experiments, spot>>

SpecSyl == InitSyl /\ [][countSyllablesCall]_vars

\* C26: the syllable estimate of a token is the number of maximal runs of
\* vowels left after the suffix and a leading y are stripped, a run of any
\* length counting once, and 1 when no run is left.
C26_MaximalVowelRuns ==
  out.op = "countSyllables"
    => LET runs == Runs(strip(out.text), Vowels) IN
       out.count = IF runs = 0 THEN 1 ELSE runs

====
